---------------------------- MODULE Spec2Model ----------------------------
(***************************************************************************)
(* A model of the coordination layer of the multi-worker WebSocket service *)
(* (src/src/app): the per-worker ConnectionManager, the Redis set that     *)
(* mirrors it, the Pub/Sub listener that relays broadcasts, and the        *)
(* lifespan startup / graceful shutdown sequence.                          *)
(*                                                                         *)
(* Every `await` of the source is a suspension point: the code between two *)
(* awaits of one coroutine runs atomically on the worker's event loop.     *)
(* One action of this module is the completion of one awaited operation    *)
(* that reads or writes shared state (a Redis command, a socket send, a    *)
(* sleep) together with the code the coroutine then runs up to its next    *)
(* such await.  An await whose result is only logged (the SCARD at the end *)
(* of connect and disconnect, line 70 and line 94) or that touches nothing *)
(* shared (websocket.accept) is folded into the action before it.  Redis   *)
(* commands are atomic; commands of different coroutines are unordered.    *)
(* The shared store is reachable throughout, except under SpecFail, where  *)
(* it may become unreachable and reachable again: a command issued while   *)
(* it is unreachable raises in the coroutine that awaits it.               *)
(***************************************************************************)
EXTENDS Integers, Sequences, FiniteSets, TLC

\* ------------------------------------------------------------- bounds
NumWorkers == 2
MaxSockets == 3
MaxMsgs == 2
MaxStale == 2

\* ------------------------------------------------ program constants
\* config.py: the defaults of the environment-sourced options (seconds).
DEFAULT_GRACEFUL_SHUTDOWN_TIMEOUT == 30
DEFAULT_GRACEFUL_SHUTDOWN_LOG_INTERVAL == 5

Workers == 1..NumWorkers
Sockets == 1..MaxSockets
Msgs == 1..MaxMsgs

\* The value of a Python name bound to None / of a missing dict entry.
NoId == <<>>
\* A history record not yet made.
Unset == <<>>

VARIABLES
  env,          \* the run: [workers, clients, msgs]: how many worker processes
                \* the deployment starts, how many clients ever connect, how
                \* many payloads are ever published
  cfg,          \* the environment's configuration: [timeout, log_interval]
  now,          \* wall clock (dt.datetime.now()), in seconds
  redisSet,     \* the Redis set WS_CONNECTIONS_KEY: the Distributed Registry
  subq,         \* subq[w]: messages waiting in worker w's Pub/Sub subscription
  wpc,          \* wpc[w]: where worker w's lifespan coroutine is suspended
  deadline,     \* deadline[w]: _wait_for_global_shutdown's local `deadline`
  wake,         \* wake[w]: when the drain loop's next check is due
  stop_event,   \* stop_event[w]: LifespanContext.stop_event is set
  pubsub,       \* pubsub[w]: "none" | "open" | "closed"
  redis,        \* redis[w]:  "none" | "open" | "closed"
  lpc,          \* lpc[w]: where worker w's listener task is suspended
  fan,          \* fan[w]: broadcast_local's locals: [msg, snap, i]
  rpend,        \* rpend[w]: `conn_id` of the disconnect the listener runs
  connections,  \* connections[w]: ConnectionManager._connections
  ws_to_id,     \* ws_to_id[w]: ConnectionManager._ws_to_id
  epc,          \* epc[s]: where socket s's websocket_endpoint is suspended
  host,         \* host[s]: the worker that accepted socket s (0: none yet)
  sock,         \* sock[s]: the client side: "new" | "open" | "closed"
  epend,        \* epend[s]: `conn_id` local to the endpoint's connect/disconnect
  \* history variables: what has happened, read only by the properties
  registered,   \* sockets whose connect ran its local registration
  discCalls,    \* discCalls[s]: disconnect calls made for socket s
  sremCount,    \* sremCount[s]: SREM commands executed for socket s
  sendLog,      \* sendLog[s]: the sends broadcast_local attempted on s: <<msg, ok>>
  pubLog,       \* the payloads published on the channel, in order
  fanLog,       \* fanLog[w]: broadcast_local calls: [msg, live]: the argument,
                \* and the worker's list of connections at the call
  earlyConnect, \* a connect was issued before every worker had started
  earlySrem,    \* sockets whose SREM was executed before their connect's SADD
  preloaded,    \* the identifiers the set held before any worker started
  drainExit,    \* drainExit[w]: "none" | "normal" | "forced"
  firstCount,   \* firstCount[w]: <<the count the drain loop's first check read>>
  lastCheck,    \* lastCheck[w]: the drain loop's last check: <<time, count>>
  zeroSince,    \* <<the time since which the Distributed Registry is empty>>
  \* the shared store's availability and GET /health
  storeUp,      \* the Redis server is reachable
  hpc,          \* hpc[w]: where worker w's health request is: "none" | "count" | "done"
  redis_ok,     \* redis_ok[w]: health's local `redis_ok`
  health        \* health[w]: the request's outcome: "none" | "ok" | "degraded" | "raised"

cmVars == <<connections, ws_to_id>>
storeVars == <<redisSet, subq>>
lifeVars == <<wpc, deadline, wake, stop_event, pubsub, redis>>
relayVars == <<lpc, fan, rpend>>
epVars == <<epc, host, sock, epend>>
histVars == <<registered, discCalls, sremCount, sendLog, pubLog, fanLog, earlyConnect,
              earlySrem, preloaded>>
drainHist == <<drainExit, firstCount, lastCheck>>
failVars == <<storeUp, hpc, redis_ok, health>>
vars == <<env, cfg, now, cmVars, storeVars, lifeVars, relayVars, epVars, histVars,
          drainHist, zeroSince, failVars>>

\* ------------------------------------------------------ Python / Redis
\* A faulty list.remove: the list is left as it was.
ListRemove_keep(seq, x) == seq

\* list.remove(x) under `if x in list`: drops the first occurrence of x.
RECURSIVE ListRemove(_, _)
ListRemove(seq, x) ==
  IF seq = <<>> THEN <<>>
  ELSE IF Head(seq) = x THEN Tail(seq)
  ELSE <<Head(seq)>> \o ListRemove(Tail(seq), x)

\* A faulty pop: the entry is read but left in the mapping.
DictPop_keep(map, s) == map

\* dict.pop(key, None): the mapping afterwards.
DictPop(map, s) == [map EXCEPT ![s] = NoId]

\* uuid4() in the connect call of socket s: a token no other call gets.
uuid4(s) == s

\* A faulty identifier: the worker's pid alone.
new_conn_id_pid(w, u) == <<w, 0>>

\* f'{self.worker_id}:{uuid4()}': the worker's pid and the token.
new_conn_id(w, u) == <<w, u>>

\* Redis SADD / SREM / SCARD / DEL on the set key.
sadd(set, id) == set \cup {id}
srem(set, id) == set \ {id}
scard(set) == Cardinality(set)
\* A faulty startup reset: the key is left as it was.
redis_delete_keep(set) == set

redis_delete(set) == {}

SeqToSet(seq) == {seq[i] : i \in 1..Len(seq)}

\* ConnectionManager.local_active_count
local_active_count(w) == Len(connections[w])

\* ConnectionManager.global_active_count: the reply of SCARD.
global_active_count == scard(redisSet)

\* Identifiers left in the set by a previous run (another pid, old tokens).
StaleIds == {<<0, k>> : k \in 1..MaxStale}

\* Since when the set is empty, once a command leaves it as `set`.
ZeroSinceAfter(set) ==
  IF set # {} THEN Unset
  ELSE IF redisSet = {} THEN zeroSince ELSE <<now>>

\* ----------------------------------------------------------------- Init
NoFan == [msg |-> 0, snap |-> <<>>, i |-> 0]

InitWith(e, c, stale) ==
  /\ env = e
  /\ cfg = c
  /\ now = 0
  /\ redisSet = stale
  /\ preloaded = stale
  /\ earlySrem = {}
  /\ subq = [w \in Workers |-> <<>>]
  /\ wpc = [w \in Workers |-> "init"]
  /\ deadline = [w \in Workers |-> 0]   \* assigned by line 151 before it is read
  /\ wake = [w \in Workers |-> 0]       \* assigned on entry to the drain loop
  /\ stop_event = [w \in Workers |-> FALSE]
  /\ pubsub = [w \in Workers |-> "none"]
  /\ redis = [w \in Workers |-> "none"]
  /\ lpc = [w \in Workers |-> "none"]
  /\ fan = [w \in Workers |-> NoFan]
  /\ rpend = [w \in Workers |-> NoId]
  /\ connections = [w \in Workers |-> <<>>]
  /\ ws_to_id = [w \in Workers |-> [s \in Sockets |-> NoId]]
  /\ epc = [s \in Sockets |-> "idle"]
  /\ host = [s \in Sockets |-> 0]
  /\ sock = [s \in Sockets |-> "new"]
  /\ epend = [s \in Sockets |-> NoId]
  /\ registered = {}
  /\ discCalls = [s \in Sockets |-> 0]
  /\ sremCount = [s \in Sockets |-> 0]
  /\ sendLog = [s \in Sockets |-> <<>>]
  /\ pubLog = <<>>
  /\ fanLog = [w \in Workers |-> <<>>]
  /\ earlyConnect = FALSE
  /\ drainExit = [w \in Workers |-> "none"]
  /\ firstCount = [w \in Workers |-> Unset]
  /\ lastCheck = [w \in Workers |-> Unset]
  /\ zeroSince = IF stale = {} THEN <<0>> ELSE Unset
  /\ storeUp = TRUE
  /\ hpc = [w \in Workers |-> "none"]
  /\ redis_ok = [w \in Workers |-> FALSE]
  /\ health = [w \in Workers |-> "none"]

\* A worker's process is alive until its lifespan shutdown has returned or
\* raised.
Alive(w) == w \in Workers /\ wpc[w] \notin {"stopped", "raised"}

\* ---------------------------------------------------- ConnectionManager
\* A faulty connect: the socket is registered only after SADD, so never here.
connect_local_forget(w, s, conn_id) == UNCHANGED <<connections, ws_to_id>>

\* connect lines 64-66, once `await websocket.accept()` has returned.
connect_local(w, s, conn_id) ==
  /\ connections' = [connections EXCEPT ![w] = Append(@, s)]
  /\ ws_to_id' = [ws_to_id EXCEPT ![w][s] = conn_id]

\* disconnect lines 86-89: pop the identifier, drop the socket from the list.
disconnect_local(w, s) ==
  /\ ws_to_id' = [ws_to_id EXCEPT ![w] = DictPop(@, s)]
  /\ connections' = [connections EXCEPT ![w] = ListRemove(@, s)]

\* A faulty line 91: SREM is issued whether or not an identifier was popped.
needs_srem_always(conn_id) == TRUE

\* disconnect line 91, `if conn_id:`: the call goes on to SREM.
needs_srem(conn_id) == conn_id # NoId

\* ------------------------------------------------- websocket_endpoint
\* A client opens a WebSocket to worker w, which is serving.  The endpoint
\* calls manager.connect: accept() returns, lines 64-66 register the socket,
\* and connect suspends in SADD.  Sockets are interchangeable, so they arrive
\* in the order of their numbers.
Arrive(s, w) ==
  /\ epc[s] = "idle"
  /\ s <= env.clients
  /\ \A r \in Sockets : r < s => epc[r] # "idle"
  /\ wpc[w] = "serving"
  /\ LET conn_id == new_conn_id(w, uuid4(s)) IN
       /\ connect_local(w, s, conn_id)
       /\ epend' = [epend EXCEPT ![s] = conn_id]
  /\ epc' = [epc EXCEPT ![s] = "sadd"]
  /\ host' = [host EXCEPT ![s] = w]
  /\ sock' = [sock EXCEPT ![s] = "open"]
  /\ registered' = registered \cup {s}
  /\ earlyConnect' = (earlyConnect \/ \E v \in 1..env.workers : wpc[v] \in {"init", "subscribe"})
  /\ UNCHANGED <<failVars, env, cfg, now, storeVars, lifeVars, relayVars, discCalls, sremCount,
                 sendLog, pubLog, fanLog, earlySrem, preloaded, drainHist, zeroSince>>

\* The client goes away (close frame, reset, broken pipe): from now on a
\* receive or a send on the socket raises.
ClientClose(s) ==
  /\ sock[s] = "open"
  /\ sock' = [sock EXCEPT ![s] = "closed"]
  /\ UNCHANGED <<failVars, env, cfg, now, cmVars, storeVars, lifeVars, relayVars, epc, host,
                 epend, histVars, drainHist, zeroSince>>

\* connect lines 68-74: Redis executes SADD; the counts are read and logged,
\* connect returns and the endpoint enters its read loop.  With the store
\* unreachable `await sadd` raises: connect has no handler, and routes.py
\* line 68 calls it before the `try`, so the exception leaves the endpoint,
\* and the server closes the socket.
ConnectSadd(s) ==
  /\ epc[s] = "sadd"
  /\ Alive(host[s])
  /\ IF storeUp
     THEN /\ redisSet' = sadd(redisSet, epend[s])
          /\ epc' = [epc EXCEPT ![s] = "loop"]
          /\ UNCHANGED sock
     ELSE /\ epc' = [epc EXCEPT ![s] = "connect_raised"]
          /\ sock' = [sock EXCEPT ![s] = "closed"]
          /\ UNCHANGED redisSet
  /\ zeroSince' = ZeroSinceAfter(redisSet')
  /\ epend' = [epend EXCEPT ![s] = NoId]
  /\ UNCHANGED <<failVars, env, cfg, now, cmVars, subq, lifeVars, relayVars, host,
                 histVars, drainHist>>

\* routes.py lines 69-81: receive_text (or the echo's send_text) raises one of
\* WebSocketDisconnect, ConnectionResetError, BrokenPipeError, RuntimeError;
\* the handler calls manager.disconnect, which runs lines 86-89 and suspends
\* in SREM when it popped an identifier; otherwise it only reads and logs the
\* counts (SCARD, which raises when the store is unreachable) and the
\* endpoint ends.
EndpointFault(s) ==
  /\ epc[s] = "loop"
  /\ sock[s] = "closed"
  /\ Alive(host[s])
  /\ disconnect_local(host[s], s)
  /\ discCalls' = [discCalls EXCEPT ![s] = @ + 1]
  /\ LET conn_id == ws_to_id[host[s]][s] IN
       /\ epend' = [epend EXCEPT ![s] = conn_id]
       /\ epc' = [epc EXCEPT ![s] = IF needs_srem(conn_id) THEN "d_srem"
                                    ELSE IF storeUp THEN "done"
                                    ELSE "disconnect_raised"]
  /\ UNCHANGED <<failVars, env, cfg, now, storeVars, lifeVars, relayVars, host, sock, registered,
                 sremCount, sendLog, pubLog, fanLog, earlyConnect, earlySrem, preloaded,
                 drainHist, zeroSince>>

\* disconnect lines 92-98: Redis executes SREM; the counts are read and
\* logged, disconnect returns and the endpoint ends.  With the store
\* unreachable `await srem` raises out of the handler and the endpoint.
DisconnectSrem(s) ==
  /\ epc[s] = "d_srem"
  /\ Alive(host[s])
  /\ IF storeUp
     THEN /\ redisSet' = srem(redisSet, epend[s])
          /\ sremCount' = [sremCount EXCEPT ![s] = @ + 1]
          /\ epc' = [epc EXCEPT ![s] = "done"]
     ELSE /\ epc' = [epc EXCEPT ![s] = "disconnect_raised"]
          /\ UNCHANGED <<redisSet, sremCount>>
  /\ zeroSince' = ZeroSinceAfter(redisSet')
  /\ epend' = [epend EXCEPT ![s] = NoId]
  /\ UNCHANGED <<failVars, env, cfg, now, cmVars, subq, lifeVars, relayVars, host, sock,
                 registered, discCalls, sendLog, pubLog, fanLog, earlyConnect, earlySrem,
                 preloaded, drainHist>>

\* ------------------------------------------------------ setup_lifespan
\* lines 59-67: the client is created, Redis executes DEL on the set key, the
\* manager is built and published on app.state; setup suspends in SUBSCRIBE.
SetupDelete(w) ==
  /\ wpc[w] = "init"
  /\ w <= env.workers
  /\ storeUp
  /\ redisSet' = redis_delete(redisSet)
  /\ zeroSince' = ZeroSinceAfter(redisSet')
  /\ redis' = [redis EXCEPT ![w] = "open"]
  /\ wpc' = [wpc EXCEPT ![w] = "subscribe"]
  /\ UNCHANGED <<failVars, env, cfg, now, cmVars, subq, deadline, wake, stop_event, pubsub,
                 relayVars, epVars, histVars, drainHist>>

\* lines 69-84: the subscription is made (its confirmation is the first thing
\* the subscription will read), the stop event is created unset, the listener
\* task is created and suspends in its first get_message; startup is
\* complete and the worker serves requests.
SetupSubscribe(w) ==
  /\ wpc[w] = "subscribe"
  /\ storeUp
  /\ pubsub' = [pubsub EXCEPT ![w] = "open"]
  /\ subq' = [subq EXCEPT ![w] = <<[type |-> "subscribe", data |-> 0]>>]
  /\ stop_event' = [stop_event EXCEPT ![w] = FALSE]
  /\ lpc' = [lpc EXCEPT ![w] = "poll"]
  /\ wpc' = [wpc EXCEPT ![w] = "serving"]
  /\ UNCHANGED <<failVars, env, cfg, now, cmVars, redisSet, deadline, wake, redis, fan, rpend,
                 epVars, histVars, drainHist, zeroSince>>

\* --------------------------------------------------- POST /broadcast
\* routes.py lines 44-50: PUBLISH hands the payload to every subscription
\* open at that moment; the SCARD that follows only shapes the response.
\* Payloads are interchangeable and each is published once, in order.
Publish(w, m) ==
  /\ wpc[w] = "serving"
  /\ storeUp
  /\ m <= env.msgs
  /\ m = Len(pubLog) + 1
  /\ subq' = [v \in Workers |->
                IF pubsub[v] = "open"
                THEN Append(subq[v], [type |-> "message", data |-> m])
                ELSE subq[v]]
  /\ pubLog' = Append(pubLog, m)
  /\ UNCHANGED <<failVars, env, cfg, now, cmVars, redisSet, lifeVars, relayVars, epVars,
                 registered, discCalls, sremCount, sendLog, fanLog, earlyConnect, earlySrem,
                 preloaded, drainHist, zeroSince>>

\* ------------------------------------------------- _broadcast_listener
\* A faulty loop head: the stop event is not consulted.
LoopHead_forever(w) == "poll"

\* `while not stop_event.is_set()`: where the listener goes from the loop
\* head: out of the loop, or into the next get_message.
LoopHead(w) == IF stop_event[w] THEN "done" ELSE "poll"

\* get_message timed out with nothing to read: msg is None, `continue`.
RelayPollTimeout(w) ==
  /\ lpc[w] = "poll"
  /\ storeUp
  /\ subq[w] = <<>>
  /\ lpc' = [lpc EXCEPT ![w] = LoopHead(w)]
  /\ UNCHANGED <<failVars, env, cfg, now, cmVars, storeVars, lifeVars, fan, rpend, epVars,
                 histVars, drainHist, zeroSince>>

\* get_message read a subscribe confirmation: ignore_subscribe_messages=True
\* makes it return None, `continue`.
RelayPollIgnored(w) ==
  /\ lpc[w] = "poll"
  /\ storeUp
  /\ subq[w] # <<>>
  /\ Head(subq[w]).type # "message"
  /\ subq' = [subq EXCEPT ![w] = Tail(@)]
  /\ lpc' = [lpc EXCEPT ![w] = LoopHead(w)]
  /\ UNCHANGED <<failVars, env, cfg, now, cmVars, redisSet, lifeVars, fan, rpend, epVars,
                 histVars, drainHist, zeroSince>>

\* A faulty snapshot: the first connection is left out.
list_copy_rest(seq) == SubSeq(seq, 2, Len(seq))

\* list(self._connections): the snapshot broadcast_local iterates.
list_copy(seq) == seq

\* What broadcast_local is called with: msg["data"] (a str, as the client
\* decodes responses), through str().
relay_payload(msg) == msg.data

\* get_message returned a published message: broadcast_local(str(data)) takes
\* its snapshot and suspends in the first send_text, or returns at once when
\* the snapshot is empty.
RelayPollMessage(w) ==
  /\ lpc[w] = "poll"
  /\ storeUp
  /\ subq[w] # <<>>
  /\ Head(subq[w]).type = "message"
  /\ subq' = [subq EXCEPT ![w] = Tail(@)]
  /\ LET m == relay_payload(Head(subq[w]))
         snap == list_copy(connections[w]) IN
       /\ fanLog' = [fanLog EXCEPT ![w] = Append(@, [msg |-> m, live |-> connections[w]])]
       /\ IF snap = <<>>
          THEN /\ lpc' = [lpc EXCEPT ![w] = LoopHead(w)]
               /\ fan' = [fan EXCEPT ![w] = NoFan]
          ELSE /\ lpc' = [lpc EXCEPT ![w] = "send"]
               /\ fan' = [fan EXCEPT ![w] = [msg |-> m, snap |-> snap, i |-> 1]]
  /\ UNCHANGED <<failVars, env, cfg, now, cmVars, redisSet, lifeVars, rpend, epVars,
                 registered, discCalls, sremCount, sendLog, pubLog, earlyConnect, earlySrem,
                 preloaded, drainHist, zeroSince>>

\* A faulty for loop: the snapshot is iterated from its end.
FanSocket_reverse(w) == fan[w].snap[Len(fan[w].snap) + 1 - fan[w].i]

\* The socket broadcast_local is sending to.
FanSocket(w) == fan[w].snap[fan[w].i]

\* A faulty broadcast_local: it returns to the listener after its first socket.
FanStep_early(w) ==
  /\ fan' = [fan EXCEPT ![w] = NoFan]
  /\ lpc' = [lpc EXCEPT ![w] = LoopHead(w)]

\* broadcast_local is done with one socket of the snapshot: the next send, or
\* the end of the for loop, the return to the listener and its loop head.
FanStep(w) ==
  IF fan[w].i < Len(fan[w].snap)
  THEN /\ fan' = [fan EXCEPT ![w].i = @ + 1]
       /\ lpc' = [lpc EXCEPT ![w] = "send"]
  ELSE /\ fan' = [fan EXCEPT ![w] = NoFan]
       /\ lpc' = [lpc EXCEPT ![w] = LoopHead(w)]

\* An exception no handler catches (a Redis error inside disconnect, or in
\* get_message) leaves broadcast_local and _broadcast_listener: the listener
\* task ends with the exception.
ListenerRaises(w) ==
  /\ fan' = [fan EXCEPT ![w] = NoFan]
  /\ lpc' = [lpc EXCEPT ![w] = "error"]

\* line 113: send_text returned.
RelaySendOk(w) ==
  /\ lpc[w] = "send"
  /\ sock[FanSocket(w)] = "open"
  /\ sendLog' = [sendLog EXCEPT ![FanSocket(w)] = Append(@, <<fan[w].msg, TRUE>>)]
  /\ FanStep(w)
  /\ UNCHANGED <<failVars, env, cfg, now, cmVars, storeVars, lifeVars, rpend, epVars, registered,
                 discCalls, sremCount, pubLog, fanLog, earlyConnect, earlySrem, preloaded,
                 drainHist, zeroSince>>

\* lines 115-125: send_text raised WebSocketDisconnect, ConnectionResetError,
\* BrokenPipeError or RuntimeError: disconnect(ws) runs lines 86-89 and suspends
\* in SREM when it popped an identifier; otherwise it only reads and logs the
\* counts (SCARD, which raises when the store is unreachable), returns, and
\* the for loop goes on.
RelaySendFail(w) ==
  /\ lpc[w] = "send"
  /\ sock[FanSocket(w)] = "closed"
  /\ sendLog' = [sendLog EXCEPT ![FanSocket(w)] = Append(@, <<fan[w].msg, FALSE>>)]
  /\ disconnect_local(w, FanSocket(w))
  /\ discCalls' = [discCalls EXCEPT ![FanSocket(w)] = @ + 1]
  /\ LET conn_id == ws_to_id[w][FanSocket(w)] IN
       IF needs_srem(conn_id)
       THEN /\ rpend' = [rpend EXCEPT ![w] = conn_id]
            /\ lpc' = [lpc EXCEPT ![w] = "disc_srem"]
            /\ UNCHANGED fan
       ELSE /\ IF storeUp THEN FanStep(w) ELSE ListenerRaises(w)
            /\ UNCHANGED rpend
  /\ UNCHANGED <<failVars, env, cfg, now, storeVars, lifeVars, epVars, registered, sremCount,
                 pubLog, fanLog, earlyConnect, earlySrem, preloaded, drainHist, zeroSince>>

\* disconnect lines 92-98, called from broadcast_local: Redis executes SREM;
\* the counts are read and logged, disconnect returns and the for loop goes on.
\* With the store unreachable `await srem` raises out of broadcast_local.
RelayDiscSrem(w) ==
  /\ lpc[w] = "disc_srem"
  /\ IF storeUp
     THEN /\ redisSet' = srem(redisSet, rpend[w])
          /\ sremCount' = [sremCount EXCEPT ![FanSocket(w)] = @ + 1]
          /\ earlySrem' = IF epc[FanSocket(w)] = "sadd"
                          THEN earlySrem \cup {FanSocket(w)}
                          ELSE earlySrem
          /\ FanStep(w)
     ELSE /\ ListenerRaises(w)
          /\ UNCHANGED <<redisSet, sremCount, earlySrem>>
  /\ zeroSince' = ZeroSinceAfter(redisSet')
  /\ rpend' = [rpend EXCEPT ![w] = NoId]
  /\ UNCHANGED <<failVars, env, cfg, now, cmVars, subq, lifeVars, epVars, registered, discCalls,
                 sendLog, pubLog, fanLog, earlyConnect, preloaded, drainHist>>

\* ---------------------------------------------- _wait_for_global_shutdown
\* A faulty check: the deadline is tested before the count.
DrainDecision_deadline_first(global_count, t, dl) ==
  IF t >= dl THEN "forced"
  ELSE IF global_count = 0 THEN "normal"
  ELSE "sleep"

\* lines 162-176: what one check of the drain loop decides from the count it
\* read, the time and the deadline.
DrainDecision(global_count, t, dl) ==
  IF global_count = 0 THEN "normal"
  ELSE IF t >= dl THEN "forced"
  ELSE "sleep"

\* line 151: deadline = start + timedelta(seconds=GRACEFUL_SHUTDOWN_TIMEOUT)
drain_deadline(start) == start + cfg.timeout

\* line 150, `start`: recovered from the deadline.
drain_start(w) == deadline[w] - cfg.timeout

\* A faulty line 182: the loop sleeps for the whole timeout.
sleep_until_timeout(t) == t + cfg.timeout

\* line 182: when asyncio.sleep(GRACEFUL_SHUTDOWN_LOG_INTERVAL), begun at t, ends.
sleep_until(t) == t + cfg.log_interval

\* The lifespan's `finally` (app.py line 20) calls shutdown_lifespan, which
\* enters _wait_for_global_shutdown: lines 150-151 fix start and deadline, and
\* the loop suspends in its first SCARD.
BeginShutdown(w) ==
  /\ wpc[w] = "serving"
  /\ deadline' = [deadline EXCEPT ![w] = drain_deadline(now)]
  /\ wake' = [wake EXCEPT ![w] = now]
  /\ wpc' = [wpc EXCEPT ![w] = "drain"]
  /\ UNCHANGED <<failVars, env, cfg, now, cmVars, storeVars, stop_event, pubsub, redis,
                 relayVars, epVars, histVars, drainHist, zeroSince>>

\* lines 159-182: the check is due (at once after entry, else when the sleep
\* is over): SCARD replies and the clock is read.  Either the loop is left
\* (count zero, or deadline reached), shutdown_lifespan sets the stop event
\* (line 102) and suspends awaiting the listener task; or the loop suspends in
\* asyncio.sleep.
DrainCheck(w) ==
  /\ wpc[w] = "drain"
  /\ now >= wake[w]
  /\ storeUp
  /\ LET global_count == global_active_count
         d == DrainDecision(global_count, now, deadline[w]) IN
       /\ lastCheck' = [lastCheck EXCEPT ![w] = <<now, global_count>>]
       /\ firstCount' = [firstCount EXCEPT ![w] = IF @ = Unset THEN <<global_count>> ELSE @]
       /\ IF d = "sleep"
          THEN /\ wake' = [wake EXCEPT ![w] = sleep_until(now)]
               /\ UNCHANGED <<wpc, stop_event, drainExit>>
          ELSE /\ drainExit' = [drainExit EXCEPT ![w] = d]
               /\ stop_event' = [stop_event EXCEPT ![w] = TRUE]
               /\ wpc' = [wpc EXCEPT ![w] = "await_listener"]
               /\ UNCHANGED wake
  /\ UNCHANGED <<failVars, env, cfg, now, cmVars, storeVars, deadline, pubsub, redis, relayVars,
                 epVars, histVars, zeroSince>>

\* ---------------------------------------------------- shutdown_lifespan
\* A faulty line 103: the listener task is not awaited.
ListenerReturned_nowait(w) == TRUE

\* line 103: `await listener_task` returns once the listener has returned.
ListenerReturned(w) == lpc[w] = "done"

\* lines 103-104: the listener task is joined and the subscription released;
\* line 105 calls redis.close().
PubsubClose(w) ==
  /\ wpc[w] = "await_listener"
  /\ ListenerReturned(w)
  /\ pubsub' = [pubsub EXCEPT ![w] = "closed"]
  /\ subq' = [subq EXCEPT ![w] = <<>>]
  /\ wpc' = [wpc EXCEPT ![w] = "close_redis"]
  /\ UNCHANGED <<failVars, env, cfg, now, cmVars, redisSet, deadline, wake, stop_event, redis,
                 relayVars, epVars, histVars, drainHist, zeroSince>>

\* A faulty shutdown: the set key is deleted, as at startup.
redis_close_flush(set) == {}

\* line 105, redis.close(): the client's connections are dropped; no command
\* is sent, the set key is left as it is.
redis_close(set) == set

\* lines 105-107: the store connection is released; shutdown is complete and
\* the worker's process ends.
RedisClose(w) ==
  /\ wpc[w] = "close_redis"
  /\ redis' = [redis EXCEPT ![w] = "closed"]
  /\ redisSet' = redis_close(redisSet)
  /\ zeroSince' = ZeroSinceAfter(redisSet')
  /\ wpc' = [wpc EXCEPT ![w] = "stopped"]
  /\ UNCHANGED <<failVars, env, cfg, now, cmVars, subq, deadline, wake, stop_event, pubsub,
                 relayVars, epVars, histVars, drainHist>>

\* ------------------------------------------------- store unavailability
\* The Redis server becomes unreachable.
StoreDown ==
  /\ storeUp
  /\ storeUp' = FALSE
  /\ UNCHANGED <<hpc, redis_ok, health, env, cfg, now, cmVars, storeVars, lifeVars,
                 relayVars, epVars, histVars, drainHist, zeroSince>>

\* The Redis server is reachable again.
StoreBack ==
  /\ ~storeUp
  /\ storeUp' = TRUE
  /\ UNCHANGED <<hpc, redis_ok, health, env, cfg, now, cmVars, storeVars, lifeVars,
                 relayVars, epVars, histVars, drainHist, zeroSince>>

\* lifecycle.py lines 131-134: get_message raises on an unreachable store; the
\* listener has no handler.
RelayPollRaises(w) ==
  /\ lpc[w] = "poll"
  /\ ~storeUp
  /\ ListenerRaises(w)
  /\ UNCHANGED <<failVars, env, cfg, now, cmVars, storeVars, lifeVars, rpend, epVars,
                 histVars, drainHist, zeroSince>>

\* lifecycle.py line 159: SCARD raises on an unreachable store; neither
\* _wait_for_global_shutdown nor shutdown_lifespan (line 100) nor the
\* lifespan's `finally` (app.py line 20) handles it: the shutdown ends there.
DrainCheckRaises(w) ==
  /\ wpc[w] = "drain"
  /\ now >= wake[w]
  /\ ~storeUp
  /\ wpc' = [wpc EXCEPT ![w] = "raised"]
  /\ UNCHANGED <<failVars, env, cfg, now, cmVars, storeVars, deadline, wake, stop_event,
                 pubsub, redis, relayVars, epVars, histVars, drainHist, zeroSince>>

\* lifecycle.py line 103: awaiting a task that ended with an exception raises
\* that exception in shutdown_lifespan, which has no handler: lines 104-105
\* are not run.
AwaitListenerRaises(w) ==
  /\ wpc[w] = "await_listener"
  /\ lpc[w] = "error"
  /\ wpc' = [wpc EXCEPT ![w] = "raised"]
  /\ UNCHANGED <<failVars, env, cfg, now, cmVars, storeVars, deadline, wake, stop_event,
                 pubsub, redis, relayVars, epVars, histVars, drainHist, zeroSince>>

\* ----------------------------------------------------------- GET /health
\* routes.py line 107.
health_status(ok) == IF ok THEN "ok" ELSE "degraded"

\* routes.py lines 98-103: PING inside try/except: redis_ok tells whether it
\* answered; the handler suspends in the SCARD of line 105.
HealthPing(w) ==
  /\ wpc[w] = "serving"
  /\ hpc[w] = "none"
  /\ redis_ok' = [redis_ok EXCEPT ![w] = storeUp]
  /\ hpc' = [hpc EXCEPT ![w] = "count"]
  /\ UNCHANGED <<storeUp, health, env, cfg, now, cmVars, storeVars, lifeVars, relayVars,
                 epVars, histVars, drainHist, zeroSince>>

\* routes.py lines 105-115: global_active_count is awaited outside the try:
\* the response is built when SCARD replies, and an exception of SCARD leaves
\* the handler.
HealthCount(w) ==
  /\ hpc[w] = "count"
  /\ Alive(w)
  /\ health' = [health EXCEPT ![w] = IF storeUp THEN health_status(redis_ok[w])
                                     ELSE "raised"]
  /\ hpc' = [hpc EXCEPT ![w] = "done"]
  /\ UNCHANGED <<storeUp, redis_ok, env, cfg, now, cmVars, storeVars, lifeVars, relayVars,
                 epVars, histVars, drainHist, zeroSince>>

\* ------------------------------------------------------------- the clock
\* One second passes.  Time is only read by the drain loop, so it is let pass
\* only while some drain loop sleeps; a sleep ends when its delay is over, and
\* a Redis round trip of the drain loop takes no time on this scale.
Tick ==
  /\ \E w \in Workers : wpc[w] = "drain"
  /\ \A w \in Workers : wpc[w] = "drain" => now < wake[w]
  /\ now' = now + 1
  /\ UNCHANGED <<failVars, env, cfg, cmVars, storeVars, lifeVars, relayVars, epVars, histVars,
                 drainHist, zeroSince>>

\* ------------------------------------------------------- specifications
\* The actions of the service.
ServiceNext ==
  \/ \E w \in Workers : SetupDelete(w)
  \/ \E w \in Workers : SetupSubscribe(w)
  \/ \E s \in Sockets, w \in Workers : Arrive(s, w)
  \/ \E s \in Sockets : ClientClose(s)
  \/ \E s \in Sockets : ConnectSadd(s)
  \/ \E s \in Sockets : EndpointFault(s)
  \/ \E s \in Sockets : DisconnectSrem(s)
  \/ \E w \in Workers : RelayPollTimeout(w)
  \/ \E w \in Workers : RelayPollIgnored(w)
  \/ \E w \in Workers : BeginShutdown(w)
  \/ \E w \in Workers : DrainCheck(w)
  \/ \E w \in Workers : PubsubClose(w)
  \/ \E w \in Workers : RedisClose(w)

\* The actions of a broadcast.
BroadcastNext ==
  \/ \E w \in Workers, m \in Msgs : Publish(w, m)
  \/ \E w \in Workers : RelayPollMessage(w)
  \/ \E w \in Workers : RelaySendOk(w)
  \/ \E w \in Workers : RelaySendFail(w)
  \/ \E w \in Workers : RelayDiscSrem(w)

\* Spec, the whole service: every worker, clients on any of them and a
\* broadcast, under a configuration whose drain loop gives up at its first
\* check (no time passes).
Init ==
  InitWith([workers |-> NumWorkers, clients |-> MaxSockets - 1, msgs |-> MaxMsgs - 1],
           [timeout |-> 0, log_interval |-> 1], {})

Next == ServiceNext \/ BroadcastNext

Spec == Init /\ [][Next]_vars

\* SpecWorker, one worker in full: its clients, its broadcasts, and a drain
\* loop that sleeps once before its deadline.
InitWorker ==
  InitWith([workers |-> 1, clients |-> MaxSockets, msgs |-> MaxMsgs],
           [timeout |-> 1, log_interval |-> 1], {})

NextWorker == ServiceNext \/ BroadcastNext \/ Tick

SpecWorker == InitWorker /\ [][NextWorker]_vars

\* SpecDrain, the drain loop on the clock: one worker, started on a set that
\* may hold stale identifiers, shutting down while its clients leave or stay,
\* under the default configuration and under a 2 s timeout.  Nothing is
\* published.
DrainConfigs ==
  { [timeout |-> DEFAULT_GRACEFUL_SHUTDOWN_TIMEOUT,
     log_interval |-> DEFAULT_GRACEFUL_SHUTDOWN_LOG_INTERVAL],
    [timeout |-> 2, log_interval |-> DEFAULT_GRACEFUL_SHUTDOWN_LOG_INTERVAL] }

InitDrain ==
  \E c \in DrainConfigs, stale \in SUBSET StaleIds :
    InitWith([workers |-> 1, clients |-> MaxSockets, msgs |-> 0], c, stale)

NextDrain == ServiceNext \/ Tick

SpecDrain == InitDrain /\ [][NextDrain]_vars

\* SpecPair, two workers and the clock: one worker's drain loop while the
\* other holds the only connection.
InitPair ==
  InitWith([workers |-> NumWorkers, clients |-> MaxSockets - 2, msgs |-> 0],
           [timeout |-> 3, log_interval |-> 2], {})

NextPair == ServiceNext \/ Tick

SpecPair == InitPair /\ [][NextPair]_vars

\* SpecRelay, one worker whose listener task is scheduled: the event loop
\* runs a task that is ready, a send or a Redis command completes, and
\* get_message returns when its timeout is over.
InitRelay ==
  InitWith([workers |-> 1, clients |-> MaxSockets - 1, msgs |-> MaxMsgs],
           [timeout |-> 0, log_interval |-> 1], {})

RelayStep(w) ==
  \/ RelayPollTimeout(w)
  \/ RelayPollIgnored(w)
  \/ RelayPollMessage(w)
  \/ RelaySendOk(w)
  \/ RelaySendFail(w)
  \/ RelayDiscSrem(w)

SpecRelay ==
  InitRelay /\ [][Next]_vars /\ \A w \in Workers : WF_relayVars(RelayStep(w))

\* SpecFail, one worker and a store that may become unreachable and come
\* back, with a health request.
FailNext ==
  \/ StoreDown
  \/ StoreBack
  \/ \E w \in Workers : RelayPollRaises(w)
  \/ \E w \in Workers : DrainCheckRaises(w)
  \/ \E w \in Workers : AwaitListenerRaises(w)
  \/ \E w \in Workers : HealthPing(w)
  \/ \E w \in Workers : HealthCount(w)

InitFail ==
  InitWith([workers |-> 1, clients |-> MaxSockets - 1, msgs |-> MaxMsgs - 1],
           [timeout |-> 0, log_interval |-> 1], {})

NextFail == ServiceNext \/ BroadcastNext \/ FailNext

SpecFail == InitFail /\ [][NextFail]_vars

\* ============================================================ properties
\* The identifier connect gave socket s.
conn_id_of(s) == new_conn_id(host[s], uuid4(s))

\* The disconnect calls for socket s that have popped an identifier and not
\* yet had their SREM executed: the endpoint's handler, and the listeners'
\* broadcast_local.
PendingSrems(s) ==
  (IF epc[s] = "d_srem" THEN 1 ELSE 0)
    + Cardinality({w \in Workers : lpc[w] = "disc_srem" /\ FanSocket(w) = s})

SremPending(s) == PendingSrems(s) > 0

\* ------------------------------------------------------------------ C1
\* The sockets worker w has connected and not yet disconnected.
ConnectedNotDisconnected(w) ==
  {s \in registered : host[s] = w /\ discCalls[s] = 0}

\* C1: at every point of every sequence of connect and disconnect calls on one
\* Connection Manager (each socket connected at most once),
\* local_active_count equals the number of sockets that have been connected
\* and not yet disconnected.
C1_LocalCountIsConnectedMinusDisconnected ==
  \A w \in Workers :
    local_active_count(w) = Cardinality(ConnectedNotDisconnected(w))

\* Three sockets were connected to one manager, two of them have been
\* disconnected (one of them twice), and one is still counted.
C1_Witness ==
  \E w \in Workers :
    /\ Cardinality({s \in registered : host[s] = w}) = MaxSockets
    /\ \E s \in Sockets : discCalls[s] = 2
    /\ local_active_count(w) = 1

\* ------------------------------------------------------------------ C2
\* What every state shows of the disconnect calls made so far for socket s:
\* the socket is in neither local structure, and exactly one SREM has been
\* executed or is about to be.
DisconnectedOnce(s) ==
  /\ discCalls[s] = 0 => sremCount[s] + PendingSrems(s) = 0
  /\ discCalls[s] >= 1 =>
       /\ s \notin SeqToSet(connections[host[s]])
       /\ ws_to_id[host[s]][s] = NoId
       /\ sremCount[s] + PendingSrems(s) = 1
       /\ (sremCount[s] = 1 /\ epc[s] # "sadd" /\ s \notin earlySrem) =>
            conn_id_of(s) \notin redisSet

\* A step in which disconnect is called for a socket the manager does not
\* (or no longer) know changes neither registry and issues no SREM.
UnknownDisconnectIsNoOp ==
  \A s \in Sockets :
    (discCalls'[s] = discCalls[s] + 1 /\ ws_to_id[host[s]][s] = NoId) =>
      /\ connections' = connections
      /\ ws_to_id' = ws_to_id
      /\ redisSet' = redisSet
      /\ sremCount' = sremCount
      /\ PendingSrems(s)' = PendingSrems(s)

\* C2: disconnect is idempotent.  Two disconnect calls for one socket, one
\* after the other or interleaved at their suspension points (the read
\* loop's error handler racing broadcast_local's failure handler), leave the
\* registries as one call does: the socket is removed from the local
\* collection once and its identifier is removed from the Distributed
\* Registry by exactly one SREM; a disconnect of an unknown socket changes
\* neither registry.
C2_DisconnectIdempotent ==
  /\ [](\A s \in Sockets : DisconnectedOnce(s))
  /\ [][UnknownDisconnectIsNoOp]_vars

\* The second disconnect call for a socket has been made while the first is
\* still suspended before its SREM.
C2_Witness ==
  \E s \in Sockets : discCalls[s] = 2 /\ SremPending(s) /\ sremCount[s] = 0

\* ------------------------------------------------------------------ C3
\* Every worker of the deployment has completed startup.
AllStarted == \A w \in 1..env.workers : wpc[w] \notin {"init", "subscribe"}

\* The sockets whose connect call has returned.
Connected == {s \in Sockets : epc[s] = "loop"}

\* C3: once all W workers have completed startup, after N connects (N distinct
\* sockets), issued concurrently across the workers against one shared
\* Distributed Registry, have all completed and no disconnect was made,
\* global_active_count (the same SCARD on every worker) is N, for every
\* distribution of the connects over the workers and every interleaving.
C3_GlobalCountAfterConnects ==
  ( /\ AllStarted
    /\ ~earlyConnect
    /\ \A s \in Sockets : epc[s] \in {"idle", "loop"}
    /\ \A s \in Sockets : discCalls[s] = 0 )
  => global_active_count = Cardinality(Connected)

\* Two workers are up and every client of the run has connected after that,
\* not all on the same worker.
C3_Witness ==
  /\ AllStarted /\ ~earlyConnect
  /\ env.workers > 1
  /\ Cardinality(Connected) = env.clients
  /\ \A s \in Sockets : discCalls[s] = 0
  /\ \E s, r \in Connected : host[s] # host[r]
  /\ global_active_count > 1

\* ------------------------------------------------------------------ C4
\* C4: in every reachable state of a multi-worker run, every identifier in
\* some worker's Local Registry mapping is a member of the Distributed
\* Registry, except while that worker's own connect for it is between its
\* local registration and its SADD (a disconnect pops the identifier from the
\* mapping before its SREM, so it opens no such window); in particular when
\* another worker performs startup while this worker holds connections.
C4_LocalIdsAreInRegistry ==
  \A w \in Workers, s \in Sockets :
    ws_to_id[w][s] # NoId =>
      \/ ws_to_id[w][s] \in redisSet
      \/ epc[s] = "sadd"

\* ------------------------------------------------------------------ C5
\* The payloads of the published messages waiting in worker w's subscription.
PendingPayloads(w) ==
  LET q == SelectSeq(subq[w], LAMBDA msg : msg.type = "message") IN
    [i \in 1..Len(q) |-> q[i].data]

\* The payloads worker w's listener has called broadcast_local with.
HandledPayloads(w) == [j \in 1..Len(fanLog[w]) |-> fanLog[w][j].msg]

\* seq is log[k+1 .. k+Len(seq)].
IsSegmentAt(seq, log, k) ==
  /\ k + Len(seq) <= Len(log)
  /\ \A i \in 1..Len(seq) : seq[i] = log[k + i]

\* Worker w's listener gets each payload published while its subscription is
\* open once, as published and in order: what it has handled, followed by what
\* waits in the subscription, is a run of the publication log, and reaches the
\* log's end while the subscription is open.
RelayedOnceUnchanged(w) ==
  LET seq == HandledPayloads(w) \o PendingPayloads(w) IN
    /\ \E k \in 0..Len(pubLog) : IsSegmentAt(seq, pubLog, k)
    /\ pubsub[w] = "open" => IsSegmentAt(seq, pubLog, Len(pubLog) - Len(seq))

\* The j-th broadcast_local call of worker w is still running.
FanRunning(w, j) == j = Len(fanLog[w]) /\ lpc[w] \in {"send", "disc_srem"}

\* The sockets the j-th broadcast_local call of worker w has to have tried by
\* now: all that were connected when it was called, or, while it runs, those of
\* them before the one it is sending to.
FanAttempted(w, j) ==
  LET live == fanLog[w][j].live IN
    IF FanRunning(w, j)
    THEN {live[k] : k \in 1..(fan[w].i - (IF lpc[w] = "send" THEN 1 ELSE 0))}
    ELSE SeqToSet(live)

\* The send attempts of payload m on socket s.
SendsOf(s, m) == Cardinality({i \in 1..Len(sendLog[s]) : sendLog[s][i][1] = m})

\* Each socket has been tried once for every fan-out it was connected for,
\* and never otherwise.
SentOncePerFanOut ==
  \A s \in Sockets, m \in Msgs :
    /\ SendsOf(s, m) <= 1
    /\ SendsOf(s, m) =
         Cardinality({wj \in Workers \X (1..MaxMsgs) :
                        /\ wj[2] <= Len(fanLog[wj[1]])
                        /\ fanLog[wj[1]][wj[2]].msg = m
                        /\ s \in FanAttempted(wj[1], wj[2])})

\* The listener never publishes: a step that publishes moves no listener.
RelayNeverPublishes == pubLog' # pubLog => lpc' = lpc /\ fan' = fan

\* C5: a message published once is sent to every socket connected, on any
\* worker whose Relay is running, when that worker's Relay handles it, exactly
\* once per socket: each worker's Relay calls broadcast_local exactly once for
\* the message, with the payload unchanged; no socket gets it twice within
\* one fan-out; the Relay never publishes back to the channel.
C5_BroadcastOncePerSocket ==
  /\ [](\A w \in Workers : RelayedOnceUnchanged(w))
  /\ []SentOncePerFanOut
  /\ [][RelayNeverPublishes]_vars

\* A payload was published once, both workers' listeners have handled it, and
\* a socket on each of them has received it.
C5_Witness ==
  /\ Len(pubLog) = 1
  /\ \A w \in 1..env.workers :
       /\ Len(fanLog[w]) = 1 /\ ~FanRunning(w, 1)
       /\ fanLog[w][1].live # <<>>
       /\ \A s \in SeqToSet(fanLog[w][1].live) : sendLog[s] = <<<<pubLog[1], TRUE>>>>

\* ------------------------------------------------------------------ C6
\* In this step worker w's broadcast_local returns from a fan-out over a
\* non-empty snapshot.
FanOutReturns(w) ==
  /\ lpc[w] \in {"send", "disc_srem"}
  /\ lpc'[w] \in {"poll", "done"}

\* The sockets of the snapshot whose send failed, as of the end of the step.
FanOutFailed(w) ==
  {s \in SeqToSet(fan[w].snap) : <<fan[w].msg, FALSE>> \in SeqToSet(sendLog'[s])}

\* Every socket of the snapshot got its send attempt, failures or not.
FanOutCompletes(w) ==
  FanOutReturns(w) =>
    \A s \in SeqToSet(fan[w].snap) : \E ok \in BOOLEAN :
      <<fan[w].msg, ok>> \in SeqToSet(sendLog'[s])

\* At the return the failing sockets are in neither local structure.
FailedLeaveLocalRegistry(w) ==
  FanOutReturns(w) =>
    \A s \in FanOutFailed(w) :
      /\ s \notin SeqToSet(connections'[w])
      /\ ws_to_id'[w][s] = NoId

\* At the return the failing sockets' identifiers are not in the Redis set.
FailedLeaveDistributedRegistry(w) ==
  FanOutReturns(w) =>
    \A s \in FanOutFailed(w) : conn_id_of(s) \notin redisSet'

\* C6: a send failure on one socket during broadcast_local does not stop the
\* fan-out: every other socket of the snapshot still gets a send attempt, and
\* when broadcast_local returns the failing socket is absent from the Local
\* Registry (collection and mapping) and its identifier is absent from the
\* Distributed Registry.
C6_FailedSocketGoneAtReturn ==
  [][\A w \in Workers :
       /\ FanOutCompletes(w)
       /\ FailedLeaveLocalRegistry(w)
       /\ FailedLeaveDistributedRegistry(w)]_vars

\* ------------------------------------------------------------------ C7
\* While worker w's drain loop runs after a first check that read a nonzero
\* count, the set has not been empty for longer than one log interval.
DrainSeesZeroWithinInterval(w) ==
  (wpc[w] = "drain" /\ firstCount[w] # Unset /\ zeroSince # Unset) =>
    now <= zeroSince[1] + cfg.log_interval

\* The step in which worker w's drain loop is left, when the set is empty and
\* has been since before the deadline, leaves it on the count-zero path, no
\* later than one log interval after the set became empty.
DrainExitsOnZero(w) ==
  ( /\ drainExit[w] = "none" /\ drainExit'[w] # "none"
    /\ firstCount'[w][1] > 0
    /\ zeroSince # Unset /\ zeroSince[1] < deadline[w] )
  => /\ drainExit'[w] = "normal"
     /\ now <= zeroSince[1] + cfg.log_interval

\* C7: if the drain loop starts with a nonzero global count and the count
\* reaches zero, and stays zero, at a time t before the deadline, the loop
\* exits on the normal path no later than one log interval after t; it does
\* not wait for the deadline.  With timeout 30 s and interval 5 s, three
\* connections of which the last closes by 12 s: the loop exits by 15 s.
C7_DrainExitsWithinInterval ==
  /\ [](\A w \in Workers : DrainSeesZeroWithinInterval(w))
  /\ [][\A w \in Workers : DrainExitsOnZero(w)]_vars

\* The example: timeout 30 s, interval 5 s, the first check counts three
\* connections, the set becomes empty at 12 s, the loop exits normally at the
\* check of 15 s.
C7_Witness ==
  \E w \in Workers :
    /\ cfg.timeout = DEFAULT_GRACEFUL_SHUTDOWN_TIMEOUT
    /\ cfg.log_interval = DEFAULT_GRACEFUL_SHUTDOWN_LOG_INTERVAL
    /\ firstCount[w] = <<MaxSockets>>
    /\ drain_start(w) = 0
    /\ zeroSince = <<12>>
    /\ drainExit[w] = "normal"
    /\ lastCheck[w] = <<15, 0>>

\* ------------------------------------------------------------------ C8
\* C8: with a 2 s timeout (and the default 5 s log interval) and a count that
\* never reaches zero, the drain loop exits on the forced path about 2 s after
\* it started, when the deadline is reached, the count still nonzero, and the
\* shutdown proceeds.  On a clock of whole seconds: the forced exit is made at
\* the deadline.
C8_ForcedExitAtDeadline ==
  \A w \in Workers :
    drainExit[w] = "forced" =>
      /\ lastCheck[w][2] > 0
      /\ lastCheck[w][1] = deadline[w]

\* ------------------------------------------------------------------ C9
\* C9: whatever the set was preloaded with, once a worker's startup has
\* completed and before any new connect, global_active_count is 0.
C9_StartupClearsStaleState ==
  ( /\ \E w \in Workers : wpc[w] \notin {"init", "subscribe"}
    /\ registered = {} )
  => global_active_count = 0

\* The set was preloaded with every stale identifier; the worker has started
\* and serves, no client has connected yet.
C9_Witness ==
  /\ preloaded = StaleIds /\ StaleIds # {}
  /\ \E w \in Workers : wpc[w] = "serving"
  /\ registered = {}
  /\ global_active_count = 0

\* ----------------------------------------------------------------- C10
\* Where worker w's shutdown stands, in the order of shutdown_lifespan.
ShutdownOrder(w) ==
  /\ wpc[w] \in {"serving", "drain"} =>
       ~stop_event[w] /\ drainExit[w] = "none"
  /\ stop_event[w] => drainExit[w] \in {"normal", "forced"}
  /\ lpc[w] \notin {"none", "done"} => pubsub[w] = "open" /\ redis[w] = "open"
  /\ pubsub[w] = "closed" => stop_event[w] /\ lpc[w] = "done"
  /\ redis[w] = "closed" => pubsub[w] = "closed"
  /\ wpc[w] = "stopped" =>
       /\ stop_event[w] /\ lpc[w] = "done"
       /\ pubsub[w] = "closed" /\ redis[w] = "closed"

\* C10: shutdown is strictly ordered: the drain loop completes, then the
\* cancellation signal is raised, then the Relay task is awaited until it has
\* exited, then the subscription is released, then the store connection.  The
\* signal is never raised while the drain loop runs, no handle is released
\* while the Relay runs, and the later steps run whether the drain loop was
\* left on count zero or at the deadline.
C10_ShutdownOrder == \A w \in Workers : ShutdownOrder(w)

\* Two workers have completed their shutdown, one after a drain loop left on
\* count zero, the other after one left at the deadline.
C10_Witness ==
  \E w, v \in Workers :
    /\ wpc[w] = "stopped" /\ drainExit[w] = "normal"
    /\ wpc[v] = "stopped" /\ drainExit[v] = "forced"

\* ----------------------------------------------------------------- C11
\* Worker w's listener takes a step: it leaves a get_message, a send or a
\* Redis command it was suspended in.
ListenerMoves(w) ==
  \/ lpc'[w] # lpc[w]
  \/ fan'[w] # fan[w]
  \/ Len(subq'[w]) < Len(subq[w])

\* With the stop event set, a step of the listener never ends in a new
\* get_message: the poll in flight when the event was set is its last.
NoPollAfterStop(w) ==
  (stop_event[w] /\ ListenerMoves(w)) => lpc'[w] # "poll"

C12_HealthDegradedWhenStoreDown ==
  \A w \in Workers :
    (hpc[w] = "done" /\ ~redis_ok[w]) => health[w] = "degraded"

\* ----------------------------------------------------------------- C13
\* C13: at every suspension point of connect, disconnect and broadcast_local,
\* in any interleaving on one worker, a socket is in the ordered collection of
\* live connections if and only if it has an entry in the socket-to-identifier
\* mapping.
C13_CollectionIffMapping ==
  \A w \in Workers, s \in Sockets :
    s \in SeqToSet(connections[w]) <=> ws_to_id[w][s] # NoId

\* A connect is suspended in its SADD, a disconnect in its SREM and
\* broadcast_local in a send, with a socket in both structures and one in
\* neither.
C13_Witness ==
  \E w \in Workers, s, r, q \in Sockets :
    /\ epc[s] = "sadd" /\ epc[r] = "d_srem" /\ epc[q] = "loop"
    /\ lpc[w] = "send"
    /\ connections[w] = <<q, s>> \/ connections[w] = <<s, q>>
    /\ ws_to_id[w][r] = NoId /\ ws_to_id[w][s] # NoId /\ ws_to_id[w][q] # NoId

\* ----------------------------------------------------------------- C14
\* No connect is between its registration and its SADD, no disconnect between
\* its pop and its SREM.
Quiescent ==
  /\ \A s \in Sockets : epc[s] \notin {"sadd", "d_srem"}
  /\ \A w \in Workers : lpc[w] # "disc_srem"

\* The workers that have started and whose process has not ended.
RunningWorkers == {w \in Workers : wpc[w] # "init" /\ Alive(w)}

\* The identifiers in worker w's Local Registry.
LocalIds(w) == {ws_to_id[w][s] : s \in Sockets} \ {NoId}

\* C14: in every quiescent state (no connect or disconnect in flight) the
\* Distributed Registry equals the union of the identifier sets of the Local
\* Registries of all running workers; in particular (the inclusion stated
\* here) it contains no identifier that no running worker holds, also after
\* some worker has shut down on the forced-timeout path.
C14_RegistryHoldsOnlyLiveIds ==
  Quiescent => redisSet \subseteq UNION {LocalIds(w) : w \in RunningWorkers}

\* ----------------------------------------------------------------- C15
\* In this step worker w's drain loop makes a check: it leaves the loop or
\* goes to sleep.
DrainCheckStep(w) ==
  /\ wpc[w] = "drain"
  /\ wake'[w] # wake[w] \/ wpc'[w] # "drain"

\* What a check does, by the global count and the clock alone.
DrainCheckDecides(w) ==
  DrainCheckStep(w) =>
    /\ drainExit'[w] = "normal" <=> global_active_count = 0
    /\ drainExit'[w] = "forced" <=>
         (global_active_count > 0 /\ now >= drain_start(w) + cfg.timeout)
    /\ (global_active_count > 0 /\ now < drain_start(w) + cfg.timeout) =>
         (wpc'[w] = "drain" /\ drainExit'[w] = "none")
    /\ lastCheck[w] # Unset => now = lastCheck[w][1] + cfg.log_interval

\* C15: the drain loop takes its normal exit only at a check where the
\* observed global count is 0, and its forced exit only at a check where the
\* observed count is nonzero and the time is at or past start + timeout; it
\* decides on the global count alone, so a worker whose own local count is 0
\* keeps waiting while other workers hold connections; consecutive checks
\* are one full log interval apart, with no check in between.
C15_DrainDecidesOnGlobalCount ==
  [][\A w \in Workers : DrainCheckDecides(w)]_vars

\* A worker with no connection of its own has made its second check, one log
\* interval after the first, and keeps waiting because of a connection held by
\* the other worker.
C15_Witness ==
  \E w, v \in Workers :
    /\ w # v
    /\ wpc[w] = "drain" /\ local_active_count(w) = 0
    /\ local_active_count(v) = 1 /\ global_active_count = 1
    /\ firstCount[w] = <<1>>
    /\ lastCheck[w] = <<drain_start(w) + cfg.log_interval, 1>>

\* ----------------------------------------------------------------- C16
\* A step of worker w's shutdown procedure: entering the drain loop, a check
\* of the drain loop, raising the stop event, joining the Relay, closing the
\* subscription, closing the store connection; or the Relay leaving its loop
\* on the stop event.
ShutdownStep(w) ==
  \/ /\ wpc[w] \in {"serving", "drain", "await_listener", "close_redis"}
     /\ \/ wpc'[w] # wpc[w]
        \/ wake'[w] # wake[w]
        \/ stop_event'[w] # stop_event[w]
        \/ pubsub'[w] # pubsub[w]
        \/ redis'[w] # redis[w]
  \/ lpc[w] = "poll" /\ lpc'[w] = "done"

\* C16: a worker's shutdown (the drain loop, stopping the Relay, releasing
\* the handles) leaves the Local Registry and the Distributed Registry
\* unchanged: the connections still open are neither closed nor deregistered
\* by shutdown.
C16_ShutdownLeavesRegistries ==
  [][\A w \in Workers :
       ShutdownStep(w) => UNCHANGED <<connections, ws_to_id, redisSet, sock>>]_vars

\* The worker has shut down on the forced path and a connection is still
\* open, in the Local Registry and in the Distributed Registry.
C16_Witness ==
  \E w \in Workers, s \in Sockets :
    /\ wpc[w] = "stopped" /\ drainExit[w] = "forced"
    /\ pubsub[w] = "closed" /\ redis[w] = "closed" /\ lpc[w] = "done"
    /\ sock[s] = "open" /\ connections[w] = <<s>>
    /\ ws_to_id[w][s] # NoId /\ redisSet = {ws_to_id[w][s]}

\* ----------------------------------------------------------------- C17
\* In this step worker w's broadcast_local gets the outcome of a send_text.
SendAttempt(w) ==
  /\ lpc[w] = "send"
  /\ \E s \in Sockets : host[s] = w /\ sendLog'[s] # sendLog[s]

\* The attempt is made on the socket at the loop's position in the list as it
\* was when broadcast_local was called, after all sockets before it and before
\* all sockets behind it; when that socket has been disconnected meanwhile
\* and the send fails, the disconnect call that follows changes no registry.
SendFollowsSnapshot(w) ==
  SendAttempt(w) =>
    LET call == fanLog[w][Len(fanLog[w])]
        live == call.live
        s    == live[fan[w].i]
    IN /\ fan[w].i \in 1..Len(live)
       /\ sendLog' = [sendLog EXCEPT ![s] = Append(@, <<call.msg, sock[s] = "open">>)]
       /\ \A k \in 1..Len(live) :
            SendsOf(live[k], call.msg) = IF k < fan[w].i THEN 1 ELSE 0
       /\ (ws_to_id[w][s] = NoId /\ sock[s] = "closed") =>
            /\ discCalls' = [discCalls EXCEPT ![s] = @ + 1]
            /\ lpc'[w] # "disc_srem"
            /\ UNCHANGED <<connections, ws_to_id, redisSet>>

\* broadcast_local returns only when every socket of the list as it was at the
\* call has had its attempt, still registered or not.
ReturnsAfterWholeSnapshot(w) ==
  (fan[w] # NoFan /\ fan'[w] = NoFan /\ lpc'[w] # "error") =>
    LET call == fanLog[w][Len(fanLog[w])] IN
      \A k \in 1..Len(call.live) : SendsOf(call.live[k], call.msg)' = 1

\* The list is in connect order (sockets are numbered as they arrive), and so
\* is every snapshot.
InConnectOrder(seq) == \A i, j \in 1..Len(seq) : i < j => seq[i] < seq[j]

\* A socket of worker w that was not in the list when broadcast_local was
\* called with a message has no send of that message.
NoSendOutsideSnapshot(w) ==
  \A j \in 1..Len(fanLog[w]), s \in Sockets :
    (host[s] = w /\ s \notin SeqToSet(fanLog[w][j].live)) =>
      SendsOf(s, fanLog[w][j].msg) = 0

\* C17: broadcast_local sends to exactly the sockets of the snapshot it took
\* when called, in connect order: a socket that connects while the fan-out
\* is suspended gets no send of that message; a socket that disconnects
\* after the snapshot but before its turn still gets a send attempt, and a
\* failure of that attempt leads to a disconnect call that changes no
\* registry.
C17_FanOutOverSnapshot ==
  /\ [][\A w \in Workers : SendFollowsSnapshot(w) /\ ReturnsAfterWholeSnapshot(w)]_vars
  /\ [](\A w \in Workers :
          /\ InConnectOrder(connections[w])
          /\ \A j \in 1..Len(fanLog[w]) : InConnectOrder(fanLog[w][j].live)
          /\ NoSendOutsideSnapshot(w))

\* A fan-out over sockets 1 and 2 is suspended in its send to socket 2.
\* Socket 1 was disconnected by its endpoint before its turn, its send was
\* attempted and failed, and the second disconnect call found nothing to
\* remove; socket 3 connected during the fan-out and has no send.
C17_Witness ==
  \E w \in Workers :
    /\ lpc[w] = "send" /\ fan[w].snap = <<1, 2>> /\ fan[w].i = 2
    /\ connections[w] = <<2, 3>>
    /\ sendLog[1] = <<<<fan[w].msg, FALSE>>>> /\ discCalls[1] = 2 /\ sremCount[1] = 1
    /\ sendLog[2] = <<>> /\ sendLog[3] = <<>>

\* ----------------------------------------------------------------- C18
\* Worker w's shutdown_lifespan is over: it returned or it raised.
ShutdownOver(w) == wpc[w] \in {"stopped", "raised"}

\* C18: whenever shutdown runs, both the subscription and the store
\* connection are released, on every path, including a store failure during
\* the drain loop's count query and a Relay task that has already ended
\* with an error: once shutdown is over, both handles are closed.
C18_HandlesReleasedOnEveryPath ==
  \A w \in Workers :
    ShutdownOver(w) => (pubsub[w] = "closed" /\ redis[w] = "closed")

\* ----------------------------------------------------------------- C19
\* The endpoint of socket s ended because connect's SADD raised.
ConnectFailed(s) == epc[s] = "connect_raised"

\* Until a fan-out trips over it, the socket whose connect failed is in the
\* Local Registry with its identifier and is counted; its identifier is
\* never in the Distributed Registry.
FailedConnectStaysLocal(s) ==
  ConnectFailed(s) =>
    LET w == host[s] IN
      /\ new_conn_id(w, uuid4(s)) \notin redisSet
      /\ discCalls[s] = 0 =>
           /\ s \in SeqToSet(connections[w])
           /\ ws_to_id[w][s] = new_conn_id(w, uuid4(s))
           /\ local_active_count(w) >= 1

\* The failing SADD changes no registry; afterwards the endpoint does nothing
\* more (no retry, no disconnect): only a fan-out of the worker calls
\* disconnect for the socket, and a fan-out called while the socket is still
\* registered includes it.
FailedConnectNotCleanedUp(s) ==
  /\ (epc[s] = "sadd" /\ ConnectFailed(s)') =>
       UNCHANGED <<connections, ws_to_id, redisSet, discCalls>>
  /\ ConnectFailed(s) =>
       /\ ConnectFailed(s)'
       /\ discCalls'[s] # discCalls[s] => (lpc[host[s]] = "send" /\ FanSocket(host[s]) = s)
       /\ (discCalls[s] = 0 /\ Len(fanLog'[host[s]]) > Len(fanLog[host[s]])) =>
            s \in SeqToSet(fan'[host[s]].snap)

\* C19: if the add-member operation fails during connect, the failure
\* propagates with no retry, the endpoint ends without calling disconnect, and
\* the socket stays in the Local Registry (counted by local_active_count and
\* included in later fan-outs) while its identifier is not in the Distributed
\* Registry.
C19_FailedConnectLeavesLocalEntry ==
  /\ [](\A s \in Sockets : FailedConnectStaysLocal(s))
  /\ [][\A s \in Sockets : FailedConnectNotCleanedUp(s)]_vars

\* The connect of a socket failed, the socket stayed registered, and a later
\* fan-out took it into its snapshot and is about to send to it.
C19_Witness ==
  \E s \in Sockets :
    /\ ConnectFailed(s) /\ discCalls[s] = 0
    /\ lpc[host[s]] = "send" /\ FanSocket(host[s]) = s
    /\ local_active_count(host[s]) = 1 /\ redisSet = {}

\* ----------------------------------------------------------------- C20
\* The j-th broadcast_local call of worker w has tried every socket that was
\* connected when it was called.
FanOutDone(w, j) ==
  \A k \in 1..Len(fanLog[w][j].live) :
    SendsOf(fanLog[w][j].live[k], fanLog[w][j].msg) = 1

\* In this step worker w's listener gets something from get_message, or calls
\* broadcast_local.
RelayPolls(w) ==
  \/ subq[w] # <<>> /\ subq'[w] = Tail(subq[w]) /\ pubsub'[w] = "open"
  \/ Len(fanLog'[w]) > Len(fanLog[w])

\* The listener polls only from its loop head, with no fan-out running and
\* every earlier fan-out finished.
PollsBetweenFanOuts(w) ==
  RelayPolls(w) =>
    /\ lpc[w] = "poll" /\ fan[w] = NoFan
    /\ \A j \in 1..Len(fanLog[w]) : FanOutDone(w, j)

\* A running fan-out is the last one called, and all before it are finished.
OneFanOutAtATime(w) ==
  fan[w] # NoFan =>
    /\ fanLog[w] # <<>> /\ fan[w].msg = fanLog[w][Len(fanLog[w])].msg
    /\ \A j \in 1..(Len(fanLog[w]) - 1) : FanOutDone(w, j)

\* a is b with some elements left out.
IsSubsequence(a, b) ==
  \E f \in [1..Len(a) -> 1..Len(b)] :
    /\ \A i, j \in 1..Len(a) : i < j => f[i] < f[j]
    /\ \A i \in 1..Len(a) : a[i] = b[f[i]]

\* The payloads sent to socket s, in the order of the sends.
SentPayloads(s) == [i \in 1..Len(sendLog[s]) |-> sendLog[s][i][1]]

\* C20: the Relay handles messages strictly one at a time: it does not poll
\* for the next message until broadcast_local for the previous one has
\* returned, so fan-outs of different messages never overlap, and every
\* socket receives messages in the order the Relay received them.
C20_RelayOneMessageAtATime ==
  /\ [][\A w \in Workers : PollsBetweenFanOuts(w)]_vars
  /\ [](\A w \in Workers : OneFanOutAtATime(w))
  /\ [](\A s \in Sockets :
          host[s] \in Workers => IsSubsequence(SentPayloads(s), HandledPayloads(host[s])))

\* Two messages were published; the listener made one fan-out for each over
\* the same two connected sockets, and each socket got the two messages in the
\* order of publication.
C20_Witness ==
  \E w \in Workers :
    /\ Len(fanLog[w]) = 2 /\ fan[w] = NoFan
    /\ fanLog[w][1].live = <<1, 2>> /\ fanLog[w][2].live = <<1, 2>>
    /\ \A s \in {1, 2} : sendLog[s] = <<<<pubLog[1], TRUE>>, <<pubLog[2], TRUE>>>>

=============================================================================
